---- MODULE Spec2Model ----
(***************************************************************************)
(* A model of the clustering estimators of luma/clustering/kmeans.py:      *)
(* KMeansClustering, KMeansClusteringPlus, KMediansClustering and          *)
(* MiniBatchKMeansClustering.  One estimator instance is modelled; its     *)
(* class is chosen in Init.  fit is split at the boundaries of its loop    *)
(* (entry, one action per loop iteration, exit) so that statements about   *)
(* consecutive iterations are statements about consecutive states.         *)
(*                                                                         *)
(* Numbers.  The data are matrices whose entries are small integers, of a  *)
(* float dtype or of an integer dtype.  The dtype matters in one place:    *)
(* MiniBatchKMeansClustering.fit writes its means into the rows of the     *)
(* array X[rand_idx], which has the dtype of X, so an integer X truncates  *)
(* them.  The other classes rebind their reference rows to the float means *)
(* and medians, whatever the dtype of X, so their X is taken as float.     *)
(* Every reference row the code computes is a mean or a median of a        *)
(* non-empty set of data rows, or is NaN (mean/median of no row).  A       *)
(* finite row is stored multiplied by Scale, the least common multiple of  *)
(* the possible group sizes, so that it is an exact integer vector;        *)
(* arithmetic is exact (float rounding is not modelled).  The Euclidean    *)
(* norm is compared through its square, which orders distances alike.     *)
(*                                                                         *)
(* Left out: the verbose progress output (no effect on the state), the     *)
(* float the evaluator computes for score, and hyperparameters outside the *)
(* positive integers (n_clusters = None, 0, ...).                          *)
(***************************************************************************)
EXTENDS Integers, Sequences, FiniteSets

VARIABLES
    variant,      \* the class of the estimator instance
    n_clusters,   \* self.n_clusters
    max_iter,     \* self.max_iter
    batch_size,   \* self.batch_size (MiniBatchKMeansClustering only, else 0)
    centroids,    \* self.centroids / self.medians; <<>> while never assigned
    X_,           \* self._X: 0 for None, else the index of a dataset
    fitted,       \* self._fitted
    pc,           \* "idle", or the position inside a running fit call
    it,           \* the loop variable of fit's for loop (iterations begun)
    Xfit,         \* the argument X of the running fit call (0 when idle)
    Xint,         \* that X has an integer dtype (FALSE when idle)
    init_idx,     \* KMeansClustering.fit's local init_indices (else << >>)
    batch_idx,    \* MiniBatchKMeansClustering.fit's local batch_idx, as a set
    ret,          \* how the most recent call went (its result or exception)
    everFit       \* history: some fit call has returned normally

vars == <<variant, n_clusters, max_iter, batch_size, centroids, X_, fitted,
          pc, it, Xfit, Xint, init_idx, batch_idx, ret, everFit>>

-----------------------------------------------------------------------------
(* Bounds of the model *)

MaxK == 2
MaxBatch == 2

\* The values max_iter ranges over: none, one, two and ten iterations.
IterValues == {0, 1, 2, 10}

Variants == {"KMeans", "KMeansPlus", "KMedians", "MiniBatch"}

\* The data matrices fit, predict and score are called with: two separated
\* pairs of points, a matrix of two equal rows, and a matrix of one row.
ScenarioData == << <<0, 0>>, <<0, 1>>, <<10, 0>>, <<10, 1>> >>

Datasets ==
    << ScenarioData,
       << <<3, 0>>, <<3, 0>> >>,
       << <<1, 0>> >> >>

DatasetIds == 1..Len(Datasets)
NumRows(d) == Len(Datasets[d])
Dims == 1..Len(Datasets[1][1])

-----------------------------------------------------------------------------
(* Arithmetic *)

RECURSIVE Gcd(_, _)
Gcd(a, b) == IF b = 0 THEN a ELSE Gcd(b, a % b)

RECURSIVE LcmUpTo(_)
LcmUpTo(n) == IF n <= 1 THEN 1 ELSE (LcmUpTo(n - 1) * n) \div Gcd(LcmUpTo(n - 1), n)

RECURSIVE MaxOf(_)
MaxOf(S) == IF S = {} THEN 0
            ELSE LET x == CHOOSE y \in S : TRUE
                     m == MaxOf(S \ {x})
                 IN IF x > m THEN x ELSE m

Scale == LcmUpTo(MaxOf({NumRows(d) : d \in DatasetIds}))

Abs(x) == IF x < 0 THEN -x ELSE x

RECURSIVE SumOver(_, _, _)
\* the sum of column j of the rows of X whose index is in S
SumOver(X, S, j) ==
    IF S = {} THEN 0
    ELSE LET i == CHOOSE y \in S : TRUE
         IN X[i][j] + SumOver(X, S \ {i}, j)

RECURSIVE SortedCol(_, _, _)
\* column j of the rows of X whose index is in S, in ascending order
SortedCol(X, S, j) ==
    IF S = {} THEN << >>
    ELSE LET i == CHOOSE y \in S : \A z \in S : X[y][j] <= X[z][j]
         IN << X[i][j] >> \o SortedCol(X, S \ {i}, j)

-----------------------------------------------------------------------------
(* Rows of the reference set *)

NaNRow == [nan |-> TRUE, v |-> [j \in Dims |-> 0]]
Row(vec) == [nan |-> FALSE, v |-> vec]

\* A data row as a reference row: X[idx]
DataRow(X, i) == Row([j \in Dims |-> Scale * X[i][j]])

\* numpy's elementwise ==, reduced over a row: NaN equals nothing
RowEq(a, b) == ~a.nan /\ ~b.nan /\ a.v = b.v

HasNaN(C) == \E k \in 1..Len(C) : C[k].nan

-----------------------------------------------------------------------------
(* Distances and the assignment step *)

\* A distance is NaN as soon as the reference row is NaN.
NaNDist == [nan |-> TRUE, d |-> 0]

\* np.linalg.norm(x - c), through its square (times Scale^2)
Euclid(x, c) ==
    IF c.nan THEN NaNDist
    ELSE LET sq[j \in 0..Len(x)] ==
                 IF j = 0 THEN 0
                 ELSE sq[j - 1] + (Scale * x[j] - c.v[j]) * (Scale * x[j] - c.v[j])
         IN [nan |-> FALSE, d |-> sq[Len(x)]]

\* np.abs(x - c).sum() (times Scale)
Manhattan(x, c) ==
    IF c.nan THEN NaNDist
    ELSE LET ab[j \in 0..Len(x)] ==
                 IF j = 0 THEN 0 ELSE ab[j - 1] + Abs(Scale * x[j] - c.v[j])
         IN [nan |-> FALSE, d |-> ab[Len(x)]]

Dist(cls, x, c) == IF cls = "KMedians" THEN Manhattan(x, c) ELSE Euclid(x, c)

\* np.argmin over one row of distances: the first NaN if there is one, else the
\* first minimum.  The index is 1-based here, 0-based in a returned label.
ArgMin(ds) ==
    IF \E k \in 1..Len(ds) : ds[k].nan
    THEN CHOOSE k \in 1..Len(ds) : ds[k].nan /\ \A j \in 1..(k - 1) : ~ds[j].nan
    ELSE CHOOSE k \in 1..Len(ds) :
             /\ \A j \in 1..Len(ds) : ds[k].d <= ds[j].d
             /\ \A j \in 1..(k - 1) : ds[j].d > ds[k].d

\* labels = np.argmin(distances, axis=1), for the rows of X against the rows of C
Assign(cls, X, C) ==
    [i \in 1..Len(X) |-> ArgMin([k \in 1..Len(C) |-> Dist(cls, X[i], C[k])])]

\* the rows among S that carry label k: X[labels == k]
Members(lab, S, k) == {i \in S : lab[i] = k}

-----------------------------------------------------------------------------
(* The update step *)

\* Mutant of MeanRow: the mean rounded down to an integer.
MeanRowFloor(X, S) ==
    IF S = {} THEN NaNRow
    ELSE Row([j \in Dims |-> Scale * (SumOver(X, S, j) \div Cardinality(S))])

\* X[S].mean(axis=0): NaN for no row
MeanRow(X, S) ==
    IF S = {} THEN NaNRow
    ELSE Row([j \in Dims |-> (Scale * SumOver(X, S, j)) \div Cardinality(S)])

\* np.median(X[S], axis=0): the middle value, or the mean of the two middle
\* values; NaN for no row
MedianRow(X, S) ==
    IF S = {} THEN NaNRow
    ELSE LET n == Cardinality(S)
             med(j) == LET srt == SortedCol(X, S, j)
                       IN IF n % 2 = 1 THEN Scale * srt[(n + 1) \div 2]
                          ELSE (Scale * (srt[n \div 2] + srt[n \div 2 + 1])) \div 2
         IN Row([j \in Dims |-> med(j)])

AllRows(X) == 1..Len(X)

\* KMeansClustering.fit: new_centroids
KMeansUpdate(X, C, K) ==
    LET lab == Assign("KMeans", X, C)
    IN [k \in 1..K |-> MeanRow(X, Members(lab, AllRows(X), k))]

\* KMediansClustering.fit: new_medians
KMediansUpdate(X, C, K) ==
    LET lab == Assign("KMedians", X, C)
    IN [k \in 1..K |-> MedianRow(X, Members(lab, AllRows(X), k))]

\* KMeansClusteringPlus.fit: the in-place update, empty clusters skipped
KMeansPlusUpdate(X, C, K) ==
    LET lab == Assign("KMeansPlus", X, C)
    IN [k \in 1..Len(C) |->
           IF k <= K /\ Members(lab, AllRows(X), k) # {}
           THEN MeanRow(X, Members(lab, AllRows(X), k))
           ELSE C[k]]

\* a float row written into a row of an integer array: every entry is
\* truncated toward zero
IntCast(r) ==
    Row([j \in Dims |->
            IF r.v[j] >= 0 THEN Scale * (r.v[j] \div Scale)
            ELSE -(Scale * ((-r.v[j]) \div Scale))])

\* self.centroids[i] = mean, self.centroids having the dtype of X
StoredRow(r, int) == IF int THEN IntCast(r) ELSE r

\* MiniBatchKMeansClustering.fit: the in-place update from the batch, B being
\* the set of its row indices; clusters absent from the batch are skipped
MiniBatchUpdate(X, C, K, B, int) ==
    LET lab == Assign("MiniBatch", X, C)
    IN [k \in 1..Len(C) |->
           IF k <= K /\ Members(lab, B, k) # {}
           THEN StoredRow(MeanRow(X, Members(lab, B, k)), int)
           ELSE C[k]]

\* np.all(np.array(new) == old)
AllEqual(new, old) == \A k \in 1..Len(new) : RowEq(new[k], old[k])

-----------------------------------------------------------------------------
(* Random choices: every outcome the random source can produce *)

\* np.random.choice(N, K, replace=False): K pairwise distinct indices, in any
\* order; none when K > N (the call raises ValueError)
InjSeqs(N, K) ==
    {s \in [1..K -> 1..N] : \A a, b \in 1..K : a # b => s[a] # s[b]}

Range(f) == {f[i] : i \in DOMAIN f}

\* Mutant of Batches: the batch drawn with replacement.
BatchesWithRepeats(N, b) == {Range(s) : s \in [1..b -> 1..N]}

\* batch_idx = np.random.choice(m, self.batch_size, replace=False).  The update
\* does not depend on the order of the batch, which is kept as the set of the
\* indices drawn.
Batches(N, b) == {Range(s) : s \in InjSeqs(N, b)}

\* Mutant of RowsAt: the whole matrix instead of the chosen rows.
RowsAtAll(X, idx) == [k \in 1..Len(X) |-> DataRow(X, k)]

\* X[idx] for a sequence of indices
RowsAt(X, idx) == [k \in 1..Len(idx) |-> DataRow(X, idx[k])]

\* min([norm(x - c) ** 2 for c in self.centroids]) for row j of X, the
\* centroids being the rows idx of X
MinSqDist(X, j, idx) ==
    LET ds == {Euclid(X[j], DataRow(X, idx[k])).d : k \in 1..Len(idx)}
    IN CHOOSE m \in ds : \A e \in ds : m <= e

\* Mutant of SeedCandidates: only the index chosen last is excluded.
SeedCandidatesNotLast(X, idx) == (1..Len(X)) \ {idx[Len(idx)]}

\* Mutant of SeedCandidates: every row can be drawn, also at distance 0.
SeedCandidatesAny(X, idx) == 1..Len(X)

\* The rows np.random.choice(N, p=probs) can return: those of non-zero
\* probability.  When every distance is 0 the probabilities are 0/0 = NaN and
\* the call raises ValueError.
SeedCandidates(X, idx) == {j \in 1..Len(X) : MinSqDist(X, j, idx) > 0}

RECURSIVE SeedFrom(_, _, _)
\* _initialize_centroids, continued from the indices idx chosen so far
SeedFrom(X, idx, K) ==
    IF Len(idx) >= K THEN {[ok |-> TRUE, idx |-> idx]}
    ELSE IF SeedCandidates(X, idx) = {} THEN {[ok |-> FALSE, idx |-> idx]}
    ELSE UNION {SeedFrom(X, Append(idx, j), K) : j \in SeedCandidates(X, idx)}

\* KMeansClusteringPlus._initialize_centroids: the runs it can take, each with
\* the indices chosen and whether it returned (ok) or raised
SeedOutcomes(X, K) == UNION {SeedFrom(X, <<i>>, K) : i \in 1..Len(X)}

-----------------------------------------------------------------------------
(* fit, up to the loop: what it leaves in self.centroids and self._X (and, in
   KMeansClustering, in init_indices), and whether it got there (ok) or
   raised ValueError *)

KMeansEntry(d, C, sx, K) ==
    LET X == Datasets[d]
    IN IF InjSeqs(Len(X), K) = {}
       THEN {[ok |-> FALSE, cents |-> C, x |-> sx, idx |-> << >>]}
       ELSE {[ok |-> TRUE, cents |-> RowsAt(X, s), x |-> d, idx |-> s] :
                s \in InjSeqs(Len(X), K)}

KMeansPlusEntry(d, C, sx, K) ==
    LET X == Datasets[d]
    IN {[ok |-> o.ok, cents |-> RowsAt(X, o.idx), x |-> d, idx |-> << >>] :
           o \in SeedOutcomes(X, K)}

KMediansEntry(d, C, sx, K) ==
    LET X == Datasets[d]
    IN IF InjSeqs(Len(X), K) = {}
       THEN {[ok |-> FALSE, cents |-> C, x |-> d, idx |-> << >>]}
       ELSE {[ok |-> TRUE, cents |-> RowsAt(X, s), x |-> d, idx |-> << >>] :
                s \in InjSeqs(Len(X), K)}

MiniBatchEntry(d, C, sx, K) ==
    LET X == Datasets[d]
    IN IF InjSeqs(Len(X), K) = {}
       THEN {[ok |-> FALSE, cents |-> C, x |-> d, idx |-> << >>]}
       ELSE {[ok |-> TRUE, cents |-> RowsAt(X, s), x |-> d, idx |-> << >>] :
                s \in InjSeqs(Len(X), K)}

FitEntry(cls, d, C, sx, K) ==
    CASE cls = "KMeans" -> KMeansEntry(d, C, sx, K)
      [] cls = "KMeansPlus" -> KMeansPlusEntry(d, C, sx, K)
      [] cls = "KMedians" -> KMediansEntry(d, C, sx, K)
      [] cls = "MiniBatch" -> MiniBatchEntry(d, C, sx, K)

-----------------------------------------------------------------------------
(* One iteration of fit's loop: the reference set it leaves, and whether the
   loop goes on ("next"), is left by break ("break") or raises ("raise") *)

\* Mutant of KMeansIter: no convergence check.
KMeansIterNoBreak(X, C, K) ==
    {[how |-> "next", cents |-> KMeansUpdate(X, C, K), batch |-> {}]}

KMeansIter(X, C, K) ==
    LET new == KMeansUpdate(X, C, K)
    IN IF AllEqual(new, C) THEN {[how |-> "break", cents |-> C, batch |-> {}]}
       ELSE {[how |-> "next", cents |-> new, batch |-> {}]}

KMeansPlusIter(X, C, K) ==
    {[how |-> "next", cents |-> KMeansPlusUpdate(X, C, K), batch |-> {}]}

KMediansIter(X, C, K) ==
    LET new == KMediansUpdate(X, C, K)
    IN IF AllEqual(new, C) THEN {[how |-> "break", cents |-> C, batch |-> {}]}
       ELSE {[how |-> "next", cents |-> new, batch |-> {}]}

MiniBatchIter(X, C, K, b, int) ==
    IF Batches(Len(X), b) = {} THEN {[how |-> "raise", cents |-> C, batch |-> {}]}
    ELSE {[how |-> "next", cents |-> MiniBatchUpdate(X, C, K, B, int), batch |-> B] :
             B \in Batches(Len(X), b)}

FitIteration(cls, X, C, K, b, int) ==
    CASE cls = "KMeans" -> KMeansIter(X, C, K)
      [] cls = "KMeansPlus" -> KMeansPlusIter(X, C, K)
      [] cls = "KMedians" -> KMediansIter(X, C, K)
      [] cls = "MiniBatch" -> MiniBatchIter(X, C, K, b, int)

-----------------------------------------------------------------------------
(* predict, labels, score *)

\* What a call left behind: op, the call; status, "returned", "running" or the
\* exception raised; arg, the dataset passed (0: none); out, the labels
\* returned; computed, whether the evaluator's compute was invoked.
Outcome(op, status, arg, out, computed) ==
    [op |-> op, status |-> status, arg |-> arg, out |-> out, computed |-> computed]

\* Mutant of PredictLabels: labels counted from 1.
PredictLabelsOneBased(cls, C, X) == Assign(cls, X, C)

\* the labels predict returns (0-based) for the rows of X
PredictLabels(cls, C, X) == [i \in 1..Len(X) |-> Assign(cls, X, C)[i] - 1]

\* Mutant of PredictCall: the gate tests whether centroids were ever assigned
\* instead of the fitted flag.
PredictCallGateOnCentroids(cls, isFitted, C, d) ==
    IF C = << >> THEN Outcome("predict", "NotFittedError", d, << >>, FALSE)
    ELSE Outcome("predict", "returned", d, PredictLabels(cls, C, Datasets[d]), FALSE)

\* predict(X) with X = Datasets[d]
PredictCall(cls, isFitted, C, d) ==
    IF ~isFitted THEN Outcome("predict", "NotFittedError", d, << >>, FALSE)
    ELSE Outcome("predict", "returned", d, PredictLabels(cls, C, Datasets[d]), FALSE)

\* the labels property: self.predict(self._X)
LabelsCall(cls, isFitted, C, sx) ==
    [PredictCall(cls, isFitted, C, sx) EXCEPT !.op = "labels"]

\* score(X, metric): predict, then metric.compute(X, X_pred), whose float is
\* the evaluator's business and is not modelled
ScoreCall(cls, isFitted, C, d) ==
    LET p == PredictCall(cls, isFitted, C, d)
    IN IF p.status # "returned" THEN [p EXCEPT !.op = "score"]
       ELSE Outcome("score", "returned", d, << >>, TRUE)

-----------------------------------------------------------------------------
(* The state machine *)

\* The dtypes of the X a fit call is given, as "X is an integer matrix".
IntDtypes(cls) == IF cls = "MiniBatch" THEN BOOLEAN ELSE {FALSE}

\* An optional argument is the empty set (None) or the singleton of its value.
Optional(S) == {{}} \cup {{v} : v \in S}
OrElse(opt, old) == IF opt = {} THEN old ELSE CHOOSE v \in opt : TRUE

Init ==
    /\ variant \in Variants
    /\ n_clusters \in 1..MaxK
    /\ max_iter \in IterValues
    /\ batch_size \in (IF variant = "MiniBatch" THEN 1..MaxBatch ELSE {0})
    /\ centroids = << >>
    /\ X_ = 0
    /\ fitted = FALSE
    /\ pc = "idle"
    /\ it = 0
    /\ Xfit = 0
    /\ Xint = FALSE
    /\ init_idx = << >>
    /\ batch_idx = {}
    /\ ret = Outcome("init", "returned", 0, << >>, FALSE)
    /\ everFit = FALSE

\* fit(X) from its first statement to the head of its loop
FitBegin ==
    /\ pc = "idle"
    /\ \E d \in DatasetIds, int \in IntDtypes(variant) :
         \E o \in FitEntry(variant, d, centroids, X_, n_clusters) :
            /\ centroids' = o.cents
            /\ X_' = o.x
            /\ pc' = IF o.ok THEN "loop" ELSE "idle"
            /\ Xfit' = IF o.ok THEN d ELSE 0
            /\ Xint' = (o.ok /\ int)
            /\ init_idx' = IF o.ok THEN o.idx ELSE << >>
            /\ ret' = Outcome("fit", IF o.ok THEN "running" ELSE "ValueError",
                              d, << >>, FALSE)
    /\ it' = 0
    /\ UNCHANGED <<variant, n_clusters, max_iter, batch_size, fitted, batch_idx,
                   everFit>>

\* one pass through the body of fit's loop
FitIter ==
    /\ pc = "loop"
    /\ it < max_iter
    /\ \E o \in FitIteration(variant, Datasets[Xfit], centroids, n_clusters,
                           batch_size, Xint) :
          /\ centroids' = o.cents
          /\ pc' = CASE o.how = "next" -> "loop"
                     [] o.how = "break" -> "break"
                     [] o.how = "raise" -> "idle"
          /\ it' = CASE o.how = "next" -> it + 1
                     [] o.how = "break" -> it
                     [] o.how = "raise" -> 0
          /\ Xfit' = IF o.how = "raise" THEN 0 ELSE Xfit
          /\ Xint' = (o.how # "raise" /\ Xint)
          /\ init_idx' = IF o.how = "raise" THEN << >> ELSE init_idx
          /\ batch_idx' = o.batch
          /\ ret' = IF o.how = "raise"
                    THEN Outcome("fit", "ValueError", Xfit, << >>, FALSE)
                    ELSE ret
    /\ UNCHANGED <<variant, n_clusters, max_iter, batch_size, X_, fitted, everFit>>

\* fit after its loop: self._fitted = True; return self
FitReturn ==
    /\ IF pc = "loop" THEN it >= max_iter ELSE pc = "break"
    /\ fitted' = TRUE
    /\ everFit' = TRUE
    /\ pc' = "idle"
    /\ it' = 0
    /\ Xfit' = 0
    /\ Xint' = FALSE
    /\ init_idx' = << >>
    /\ batch_idx' = {}
    /\ ret' = Outcome("fit", "returned", Xfit, << >>, FALSE)
    /\ UNCHANGED <<variant, n_clusters, max_iter, batch_size, centroids, X_>>

Predict ==
    /\ pc = "idle"
    /\ \E d \in DatasetIds : ret' = PredictCall(variant, fitted, centroids, d)
    /\ UNCHANGED <<variant, n_clusters, max_iter, batch_size, centroids, X_,
                   fitted, pc, it, Xfit, Xint, init_idx, batch_idx, everFit>>

Labels ==
    /\ pc = "idle"
    /\ ret' = LabelsCall(variant, fitted, centroids, X_)
    /\ UNCHANGED <<variant, n_clusters, max_iter, batch_size, centroids, X_,
                   fitted, pc, it, Xfit, Xint, init_idx, batch_idx, everFit>>

Score ==
    /\ pc = "idle"
    /\ \E d \in DatasetIds : ret' = ScoreCall(variant, fitted, centroids, d)
    /\ UNCHANGED <<variant, n_clusters, max_iter, batch_size, centroids, X_,
                   fitted, pc, it, Xfit, Xint, init_idx, batch_idx, everFit>>

\* The arguments set_params can be called with; batch_size only for
\* MiniBatchKMeansClustering.
ParamArgs(cls) ==
    [nc : Optional(1..MaxK), mi : Optional(IterValues),
     bs : IF cls = "MiniBatch" THEN Optional(1..MaxBatch) ELSE {{}}]

\* set_params: the hyperparameters after the call
SetParamsCall(K, m, b, a) ==
    [n_clusters |-> OrElse(a.nc, K), max_iter |-> OrElse(a.mi, m),
     batch_size |-> OrElse(a.bs, b)]

\* Passing a hyperparameter its current value leaves the same state as passing
\* None for it; the calls are enumerated without such arguments.
Redundant(K, m, b, a) == a.nc = {K} \/ a.mi = {m} \/ a.bs = {b}

\* Mutant of SetParams: a change of hyperparameters resets the fitted state.
SetParamsResets ==
    /\ pc = "idle"
    /\ \E a \in ParamArgs(variant) :
          LET new == SetParamsCall(n_clusters, max_iter, batch_size, a)
          IN /\ ~Redundant(n_clusters, max_iter, batch_size, a)
             /\ n_clusters' = new.n_clusters
             /\ max_iter' = new.max_iter
             /\ batch_size' = new.batch_size
    /\ ret' = Outcome("set_params", "returned", 0, << >>, FALSE)
    /\ fitted' = FALSE
    /\ UNCHANGED <<variant, centroids, X_, pc, it, Xfit, Xint, init_idx,
                   batch_idx, everFit>>

\* set_params(n_clusters=None, [batch_size=None,] max_iter=None)
SetParams ==
    /\ pc = "idle"
    /\ \E a \in ParamArgs(variant) :
          LET new == SetParamsCall(n_clusters, max_iter, batch_size, a)
          IN /\ ~Redundant(n_clusters, max_iter, batch_size, a)
             /\ n_clusters' = new.n_clusters
             /\ max_iter' = new.max_iter
             /\ batch_size' = new.batch_size
    /\ ret' = Outcome("set_params", "returned", 0, << >>, FALSE)
    /\ UNCHANGED <<variant, centroids, X_, fitted, pc, it, Xfit, Xint, init_idx,
                   batch_idx, everFit>>

Next == FitBegin \/ FitIter \/ FitReturn \/ Predict \/ Labels \/ Score \/ SetParams

Spec == Init /\ [][Next]_vars

-----------------------------------------------------------------------------
(* Properties *)

Queries == {"predict", "labels", "score"}
FitReturned == ret.op = "fit" /\ ret.status = "returned"
FitRaised == ret.op = "fit" /\ ret.status = "ValueError"

\* C1: as long as no fit call has returned normally (whatever set_params and
\* failed fit calls came before), predict, labels and score raise
\* NotFittedError and return nothing, and score does not invoke the
\* evaluator's compute.
C1_NotFittedGate ==
    (~everFit /\ ret.op \in Queries) =>
        (ret.status = "NotFittedError" /\ ret.out = << >> /\ ~ret.computed)

\* a score call refused after a fit call that failed and left its traces
C1_Witness ==
    /\ ~everFit /\ ret.op = "score" /\ ret.status = "NotFittedError"
    /\ X_ # 0 /\ centroids # << >>

\* the step in which a fit call raises on entry: the whole call is that step
FitRaisesOnEntry == pc = "idle" /\ pc' = "idle" /\ ret'.op = "fit" /\ ret' # ret

\* C2: a fit call that fails leaves the fitted flag, the reference set and
\* the stored training set as they were before the call.
C2_FailedFitKeepsState ==
    [][FitRaisesOnEntry => UNCHANGED <<fitted, centroids, X_>>]_vars

\* the step that runs one iteration of fit's loop
IterStep == pc = "loop" /\ ((pc' = "loop" /\ it' = it + 1) \/ pc' = "break")

\* the rows the running iteration assigns: the batch, or every row
Assigned == IF variant = "MiniBatch" THEN batch_idx' ELSE AllRows(Datasets[Xfit])

\* cluster k receives no row in the running iteration
EmptyCluster(k) ==
    Members(Assign(variant, Datasets[Xfit], centroids), Assigned, k) = {}

\* C3: in every update step of fit a cluster that received no point keeps the
\* reference row it had, and no reference row is ever NaN.
C3_EmptyClusterKeepsRow ==
    [][/\ IterStep =>
             \A k \in 1..Len(centroids) : EmptyCluster(k) => centroids'[k] = centroids[k]
       /\ ~HasNaN(centroids')]_vars

\* C4, as claimed: whenever the estimator is fitted the reference set has
\* exactly n_clusters rows, also after set_params on a fitted estimator.
C4_RowsAlwaysNClusters ==
    (fitted /\ pc = "idle") => Len(centroids) = n_clusters

\* C4, amended: when a fit call returns the reference set has exactly
\* n_clusters rows, and predict, labels, score and set_params leave the
\* number of its rows as it is (whatever n_clusters becomes).
C4_RowsAfterFit ==
    [][/\ (pc # "idle" /\ pc' = "idle" /\ ret'.status = "returned") =>
             (fitted' /\ Len(centroids') = n_clusters')
       /\ (pc = "idle" /\ ret'.op # "fit") => Len(centroids') = Len(centroids)]_vars

C4_Witness == FitReturned /\ Len(centroids) = MaxK /\ NumRows(X_) > MaxK

LabelsInRange(out, d, K) ==
    /\ Len(out) = NumRows(d)
    /\ \A i \in 1..Len(out) : out[i] \in 0..(K - 1)

\* C5: after a successful fit with n_clusters = K, predict on any input
\* returns one label per input row, each an integer in [0, K); the labels
\* of any predict call on a fitted estimator index rows of the reference set.
C5_LabelRange ==
    /\ FitReturned =>
          \A d \in DatasetIds :
             LET p == PredictCall(variant, fitted, centroids, d)
             IN p.status = "returned" /\ LabelsInRange(p.out, d, n_clusters)
    /\ (ret.op = "predict" /\ ret.status = "returned") =>
          LabelsInRange(ret.out, ret.arg, Len(centroids))

\* a fit that returned with a cluster emptied on the way (a NaN row)
C5_Witness == FitReturned /\ n_clusters = MaxK /\ HasNaN(centroids)

\* the update step of the running iteration, for the variants with a
\* convergence check
UpdateOf(cls, X, C, K) ==
    IF cls = "KMedians" THEN KMediansUpdate(X, C, K) ELSE KMeansUpdate(X, C, K)

\* the update step of the next iteration gives back the reference set as it is
Converged ==
    /\ variant \in {"KMeans", "KMedians"}
    /\ pc = "loop" /\ it < max_iter
    /\ UpdateOf(variant, Datasets[Xfit], centroids, n_clusters) = centroids

\* C6: in KMeansClustering.fit and KMediansClustering.fit, an iteration whose
\* update gives a reference set identical to the previous one leaves the loop
\* there: nothing is updated, fewer than max_iter iterations were completed,
\* and the next thing fit does is to return with that reference set.
C6_EarlyStop ==
    [][/\ Converged =>
             (pc' = "break" /\ centroids' = centroids /\ it' = it /\ it' < max_iter')
       /\ pc = "break" =>
             /\ pc' = "idle" /\ fitted' /\ centroids' = centroids
             /\ ret'.op = "fit" /\ ret'.status = "returned"]_vars

\* the loop was left by break after at least one real update
C6_Witness == pc = "break" /\ it >= 1 /\ variant = "KMedians"

InScenario(d) ==
    /\ variant = "KMeans" /\ d # 0 /\ Datasets[d] = ScenarioData
    /\ n_clusters = 2 /\ max_iter = 10

PairedRows == {Row(<<0, Scale \div 2>>), Row(<<10 * Scale, Scale \div 2>>)}
SplitRows == {Row(<<5 * Scale, 0>>), Row(<<5 * Scale, Scale>>)}
PairedLabels(out) == out[1] = out[2] /\ out[3] = out[4] /\ out[1] # out[3]
SplitLabels(out) == out[1] = out[3] /\ out[2] = out[4] /\ out[1] # out[2]

\* the two initial rows come one from each pair of the scenario's points
CrossPairs(idx) == ScenarioData[idx[1]][1] # ScenarioData[idx[2]][1]

\* C7, as claimed: on {(0,0),(0,1),(10,0),(10,1)} with K = 2 and max_iter = 10,
\* whatever the initial rows, fit ends with the reference points (0,0.5) and
\* (10,0.5) and predict puts (0,0),(0,1) together and (10,0),(10,1) together.
C7_EveryInitPairs ==
    (FitReturned /\ InScenario(X_)) =>
        /\ Range(centroids) = PairedRows
        /\ PairedLabels(PredictLabels(variant, centroids, ScenarioData))

\* C7, amended: so it is when the two initial rows come one from each pair;
\* when both come from the same pair fit ends with (5,0) and (5,1) and
\* predict puts (0,0),(10,0) together and (0,1),(10,1) together.
C7_CrossInitPairs ==
    [][(pc # "idle" /\ pc' = "idle" /\ ret'.status = "returned" /\ InScenario(Xfit)) =>
          IF CrossPairs(init_idx)
          THEN /\ Range(centroids') = PairedRows
               /\ PairedLabels(PredictLabels(variant, centroids', ScenarioData))
          ELSE /\ Range(centroids') = SplitRows
               /\ SplitLabels(PredictLabels(variant, centroids', ScenarioData))]_vars

C7_Witness == FitReturned /\ InScenario(X_) /\ Range(centroids) = PairedRows

\* the sum over the rows of X of the distance (squared Euclidean, or Manhattan
\* for K-Medians) to the reference row each is assigned to; NaN when one is
Dispersion(cls, X, C) ==
    LET lab == Assign(cls, X, C)
        sum[i \in 0..Len(X)] ==
            IF i = 0 THEN 0 ELSE sum[i - 1] + Dist(cls, X[i], C[lab[i]]).d
    IN [nan |-> \E i \in 1..Len(X) : C[lab[i]].nan, d |-> sum[Len(X)]]

NotAbove(a, b) == ~a.nan /\ ~b.nan /\ a.d <= b.d

DispersionStep ==
    (variant \in {"KMeans", "KMedians"} /\ IterStep) =>
        NotAbove(Dispersion(variant, Datasets[Xfit], centroids'),
                 Dispersion(variant, Datasets[Xfit], centroids))

\* C8: during KMeansClustering.fit and KMediansClustering.fit the aggregate
\* within-cluster dispersion never increases from one iteration to the next.
C8_DispersionNonIncreasing == [][DispersionStep]_vars

\* The same, for the iterations that leave no NaN row: these do not increase
\* the dispersion.
DispersionNonIncreasingFinite == [][HasNaN(centroids') \/ DispersionStep]_vars

\* C9: a fit call with more clusters than rows raises (it never gets into its
\* loop nor returns), and leaves an estimator that was not fitted not fitted.
C9_TooManyClustersRaises ==
    /\ (ret.op = "fit" /\ n_clusters > NumRows(ret.arg)) => ret.status = "ValueError"
    /\ (FitRaised /\ ~everFit) => ~fitted

C9_Witness ==
    /\ FitRaised /\ n_clusters > NumRows(ret.arg) /\ ~fitted
    /\ variant = "KMeansPlus"

\* C10: predict, labels, score and set_params leave the reference set, the
\* fitted flag and the stored training set alone, which change only inside
\* fit calls; the queries leave the hyperparameters alone too and set_params
\* changes just those passed as non-None (set_params reads nothing but the
\* hyperparameters, every combination of which is an initial state); the labels
\* predict returns are determined by the reference set and the data, and a
\* predict call repeated on the same data returns the same labels.
C10_OnlyFitMutates ==
    [][/\ (pc = "idle" /\ ret'.op \in Queries \cup {"set_params"}) =>
             UNCHANGED <<centroids, fitted, X_>>
       /\ (pc = "idle" /\ ret'.op \in Queries) =>
             UNCHANGED <<n_clusters, max_iter, batch_size>>
       /\ <<centroids, fitted, X_>>' # <<centroids, fitted, X_>> =>
             (pc # "idle" \/ ret'.op = "fit")
       /\ ret.op = "init" =>
           \A a \in ParamArgs(variant) :
             LET new == SetParamsCall(n_clusters, max_iter, batch_size, a)
             IN /\ new.n_clusters \in (IF a.nc = {} THEN {n_clusters} ELSE a.nc)
                /\ new.max_iter \in (IF a.mi = {} THEN {max_iter} ELSE a.mi)
                /\ new.batch_size \in (IF a.bs = {} THEN {batch_size} ELSE a.bs)
       /\ (pc = "idle" /\ ret'.op = "predict" /\ ret'.status = "returned") =>
             ret'.out = PredictLabels(variant, centroids, Datasets[ret'.arg])
       /\ (pc = "idle" /\ ret.op = "predict" /\ ret'.op = "predict" /\ ret'.arg = ret.arg) =>
             ret'.out = ret.out]_vars

\* set_params on a fitted estimator, changing n_clusters
C10_Witness ==
    /\ ret.op = "set_params" /\ fitted /\ Len(centroids) # n_clusters

\* the update step of the running KMeansClusteringPlus iteration gives back
\* the reference set as it is
PlusConverged ==
    /\ variant = "KMeansPlus"
    /\ pc = "loop" /\ it < max_iter
    /\ AllEqual(KMeansPlusUpdate(Datasets[Xfit], centroids, n_clusters), centroids)

\* C11: KMeansClusteringPlus.fit stops as KMeansClustering.fit does: an
\* iteration whose update leaves every reference point identical to the
\* previous iteration's leaves the loop there, with fewer than max_iter
\* iterations executed.
C11_PlusEarlyStop ==
    [][PlusConverged => (pc' = "break" /\ centroids' = centroids /\ it' < max_iter')]_vars

\* the sets of b row indices of X
BatchChoices(X, b) == {S \in SUBSET AllRows(X) : Cardinality(S) = b}

\* C12: a MiniBatchKMeansClustering.fit that returns has executed exactly
\* max_iter iterations and never leaves its loop by break, whether the
\* reference set still changes or not; each iteration draws batch_size
\* pairwise distinct row indices of X, the batches that can be drawn being at
\* every iteration all the sets of batch_size indices, whatever was drawn
\* before, and a reference row changes only into the (stored) mean of rows of
\* that batch.
C12_MiniBatchRunsAllIterations ==
    [][variant = "MiniBatch" =>
        /\ pc' # "break"
        /\ (pc # "idle" /\ pc' = "idle" /\ ret'.status = "returned") =>
              (pc = "loop" /\ it = max_iter)
        /\ (pc = "loop" /\ it < max_iter /\ batch_size <= NumRows(Xfit)) =>
              LET X == Datasets[Xfit]
                  lab == Assign("MiniBatch", X, centroids)
              IN /\ pc' = "loop" /\ it' = it + 1
                 /\ batch_idx' \in BatchChoices(X, batch_size)
                 /\ \A k \in 1..Len(centroids) :
                       \/ centroids'[k] = centroids[k]
                       \/ /\ Members(lab, batch_idx', k) # {}
                          /\ centroids'[k] =
                               StoredRow(MeanRow(X, Members(lab, batch_idx', k)), Xint)
                 /\ Batches(Len(X), batch_size) = BatchChoices(X, batch_size)]_vars

\* ten iterations done although the last batch, drawn again, would leave the
\* reference set as it is
C12_Witness ==
    /\ variant = "MiniBatch" /\ pc = "loop" /\ it = max_iter /\ max_iter = 10
    /\ batch_idx # {}
    /\ MiniBatchUpdate(Datasets[Xfit], centroids, n_clusters, batch_idx, Xint) = centroids

\* the rows the running iteration assigns to cluster k
AssignedTo(k) ==
    Members(Assign(variant, Datasets[Xfit], centroids), Assigned, k)

\* in an iteration, a cluster that is assigned no row keeps its reference row
\* and every other cluster's reference row becomes the mean of its rows
SkipOrMean ==
    (variant \in {"KMeansPlus", "MiniBatch"} /\ IterStep) =>
        \A k \in 1..n_clusters :
            centroids'[k] = IF AssignedTo(k) = {} THEN centroids[k]
                            ELSE MeanRow(Datasets[Xfit], AssignedTo(k))

\* C13: in every iteration of KMeansClusteringPlus.fit a cluster with no
\* assigned point keeps exactly its reference point, and so does, in every
\* iteration of MiniBatchKMeansClustering.fit, a cluster that is assigned no
\* point of the batch; every other cluster's reference point becomes the mean
\* of the points assigned to it in that iteration.
C13_SkipOrMean == [][SkipOrMean]_vars

\* The same for the fit calls given a float matrix.
SkipOrMeanFloat == [][~Xint => SkipOrMean]_vars

\* KMeansClusteringPlus.fit goes through its seeding, which completes or raises
PlusSeeding ==
    /\ variant = "KMeansPlus" /\ pc = "idle"
    /\ ret'.op = "fit" /\ ret'.status \in {"running", "ValueError"}

PairwiseDistinct(C) == \A a, b \in 1..Len(C) : a # b => ~RowEq(C[a], C[b])

\* every index after the first that seeding can choose is of a row at non-zero
\* squared distance from the rows chosen before it
NonZeroDraws(X, K) ==
    \A o \in SeedOutcomes(X, K) :
        \A k \in 2..Len(o.idx) :
            MinSqDist(X, o.idx[k], SubSeq(o.idx, 1, k - 1)) > 0

\* C14: K-Means++ seeding never draws a row at squared distance zero from the
\* nearest reference point chosen so far, so the reference points it has
\* chosen are rows of X that differ pairwise, and a seeding that completes
\* leaves exactly n_clusters of them (every n_clusters occurs in an initial
\* state, where the draws are checked on every X).
C14_SeedingDistinct ==
    [][/\ PlusSeeding =>
            /\ PairwiseDistinct(centroids')
            /\ \A k \in 1..Len(centroids') :
                  \E i \in AllRows(Datasets[ret'.arg]) :
                      centroids'[k] = DataRow(Datasets[ret'.arg], i)
            /\ pc' = "loop" => Len(centroids') = n_clusters
       /\ (variant = "KMeansPlus" /\ ret.op = "init") =>
            \A d \in DatasetIds : NonZeroDraws(Datasets[d], n_clusters)]_vars

\* seeding has completed with more than one reference point
C14_Witness ==
    /\ variant = "KMeansPlus" /\ pc = "loop" /\ it = 0
    /\ n_clusters >= 2 /\ Len(centroids) = n_clusters
====
